---- MODULE Spec2Model ----
(***************************************************************************)
(* ClearPing: the probe scheduler (src/lib/scheduler.ts), the target       *)
(* registry and measurement store it talks to (src/lib/database.ts) and    *)
(* the API routes that change the registry.                                *)
(*                                                                         *)
(* Every `await` of the scheduler is a point where other callbacks of the  *)
(* Node event loop may run, so each asynchronous function is a task whose  *)
(* steps are the code between two awaits.  ScheduledTarget objects live in *)
(* a heap: loadTargets() REPLACES the object of a target in the map, while *)
(* a probe that is in flight keeps the reference it read before.           *)
(***************************************************************************)
EXTENDS Integers, Sequences, FiniteSets, TLC

----------------------------------------------------------------------------
(* Bounds of the model *)

\* periods of checkIntervalMs the clock may advance
MaxTicks == 2
\* overlapping executions of checkAndProbeTargets
MaxTickTasks == 2
\* overlapping executions of loadTargets
MaxLoadTasks == 1
\* calls from outside: reloadTargets(), forceProbe(), POST, PATCH, DELETE
MaxCalls == 2
\* packets an echo probe is asked to send (options.count)
MaxCount == 20
\* retries of an echo probe (options.retries)
MaxRetries == 3
\* concurrent executePing calls of one batch
MaxCallers == 2
\* data points in the window given to calculateStats
MaxWindow == 3
\* concurrent initializeServer calls (first API requests)
MaxInitCallers == 2
\* start() and stop() calls from outside
MaxLifeCalls == 6
\* overlapping executions of loadTargets where only reloads are looked at
MaxReloads == 2

----------------------------------------------------------------------------
(* Program constants and inputs *)

\* scheduler.ts:27  private checkIntervalMs: number = 10000
checkIntervalMs == 10000

\* target ids; "a" and "b" are echo (ping) targets, "d" is a DNS target
Targets == {"a", "b", "d"}

\* the order of getAllTargets (ORDER BY name), in which loadTargets fills
\* the Map and the tick walks it; the filters of a tick keep this order
Ord == <<"a", "b", "d">>

probeType(id) == IF id = "d" THEN "dns" ELSE "ping"

\* the interval of a target, in seconds
interval(id) == IF id = "d" THEN 30 ELSE 20

\* Date.now() when the scheduler is constructed: far larger than any
\* interval, so that a target with lastProbeTime = 0 is due
Epoch == 10 * checkIntervalMs

Range(s) == {s[i] : i \in DOMAIN s}

Min(S) == CHOOSE x \in S : \A y \in S : x <= y

TickSlots == 1..MaxTickTasks
LoadSlots == 1..MaxLoadTasks

\* the loadTargets executions looked at where only reloads run
ReloadSlots == 1..MaxReloads

\* addresses of the ScheduledTarget objects of one target: the Map holds
\* one, and every running probe may hold an older one
Gens == 1..(MaxTickTasks + 3)

----------------------------------------------------------------------------
VARIABLES
  now,               \* Date.now()
  tickDue,           \* the tick timer has expired and its callback is pending
  isRunning,         \* ProbeScheduler.isRunning
  intervalId,        \* ProbeScheduler.intervalId is set (the tick timer exists)
  registry,          \* targets table: status of each target ("none" = no row)
  dbLastProbeAt,     \* targets.last_probe_at
  measurements,      \* measurements table: the rows, without id and timestamp
  heap,              \* ScheduledTarget objects: heap[id][g]
  scheduledTargets,  \* the Map: id -> address of its object, 0 = no entry
  ticks,             \* running executions of checkAndProbeTargets
  loads,             \* running executions of loadTargets
  force,             \* the running forceProbe call
  calls,             \* number of calls from outside so far
  last               \* what the step that led to this state did (history)

schedVars == <<now, tickDue, isRunning, intervalId, registry, dbLastProbeAt,
               measurements, heap, scheduledTargets, ticks, loads, force,
               calls, last>>

VARIABLES
  probe,             \* one run of a probe executor: its inputs and locals
  stored,            \* the measurement the scheduler makes of its result
  fpingAvailable,    \* ping.ts: let fpingAvailable: boolean | null
  callers,           \* running executePing calls (fping variant of ping.ts)
  detections,        \* how often `fping --version` was run (history)
  window,            \* dashboard: the DataPoint[] given to calculateStats
  stats,             \* dashboard: what calculateStats returned
  timeRange          \* dashboard: the time range of the chart

probeVars == <<probe, stored>>
fpingVars == <<fpingAvailable, callers, detections>>
statsVars == <<window, stats, timeRange>>

VARIABLES
  schedulerStatus,   \* what the last getStatus() call returned
  tickTimers,        \* live setInterval timers of checkAndProbeTargets
  reloadTimers,      \* live setInterval timers of the periodic loadTargets
  starting,          \* start() calls that await loadTargets()
  lifeCalls,         \* start() and stop() calls from outside so far
  initialized,       \* init.ts: let initialized = false
  dbHandle,          \* database.ts: db is not null
  dbInitPromise,     \* database.ts: dbInitPromise and its state
  dbInits,           \* how often the body of initDatabase ran (history)
  inits              \* running initializeServer calls

statusVars == <<schedulerStatus>>
lifeVars == <<tickTimers, reloadTimers, starting, lifeCalls>>
initVars == <<initialized, dbHandle, dbInitPromise, dbInits, inits>>
ctlVars == <<statusVars, lifeVars, initVars>>

vars == <<schedVars, probeVars, fpingVars, statsVars, ctlVars>>

----------------------------------------------------------------------------
(* Numbers.  A JavaScript number that need not be an integer is kept as    *)
(* a fraction num/den with den > 0; null and undefined are kept apart.     *)

Null == [isNull |-> TRUE, num |-> 0, den |-> 1]

Frac(n, d) == [isNull |-> FALSE, num |-> n, den |-> d]

Num(n) == Frac(n, 1)

\* a == b for two numbers that are not null
SameNumber(a, b) == a.num * b.den = b.num * a.den

\* Math.round(n / d) for n >= 0, d > 0: the nearest integer, .5 upwards
Round(n, d) == (2 * n + d) \div (2 * d)

\* x || 0 of scheduler.ts: null, undefined and 0 give 0
OrZero(x) == IF x.isNull THEN Num(0) ELSE x

\* x || null of scheduler.ts: null, undefined and 0 give null
OrNull(x) == IF x.isNull \/ x.num = 0 THEN Null ELSE x

\* a + b over a sequence or a set of addresses
RECURSIVE SumSeq(_)
SumSeq(q) == IF q = <<>> THEN 0 ELSE Head(q) + SumSeq(Tail(q))

Abs(x) == IF x < 0 THEN -x ELSE x

\* round-trip times of echo replies and elapsed times of DNS queries, ms
PingRtts == {10, 13}
DnsRtts == {10, 12, 14}
RttSeq == <<10, 12, 13, 14>>

\* `latencies`: the successful samples as a multiset (value -> how many);
\* mean and mean absolute deviation do not depend on their order
NoSamples == [v \in Range(RttSeq) |-> 0]

\* latencies.length
BagSize(b) == SumSeq([i \in 1..Len(RttSeq) |-> b[RttSeq[i]]])

\* latencies.reduce((sum, lat) => sum + lat, 0)
BagSum(b) == SumSeq([i \in 1..Len(RttSeq) |-> RttSeq[i] * b[RttSeq[i]]])

\* n * n * (the mean of |lat - mean|), n = latencies.length: the sum of
\* |n * lat - sum| over the samples
BagDev(b) ==
  SumSeq([i \in 1..Len(RttSeq) |->
            b[RttSeq[i]] * Abs(BagSize(b) * RttSeq[i] - BagSum(b))])

\* latencies.push(...) for each reply of r
BagAdd(b, r) == [v \in Range(RttSeq) |-> b[v] + r[v]]

----------------------------------------------------------------------------
(* The other components at rest *)

\* no probe executor has been called
NoProbe ==
  [pc |-> "idle", kind |-> "none", count |-> 0, retries |-> 0, attempt |-> 0,
   totalSent |-> 0, totalReceived |-> 0, totalLatency |-> 0,
   latencies |-> NoSamples, alloc |-> <<>>, out |-> "none",
   result |-> [success |-> FALSE, latency |-> Null, packetLoss |-> Null,
               jitter |-> Null]]

\* no measurement has been built
NoRow == [row |-> FALSE, success |-> FALSE, latency |-> Null,
          packetLoss |-> Null, jitter |-> Null]

\* calculateStats has not returned
NoStats ==
  [done |-> FALSE, late |-> FALSE, packetLoss |-> Num(0), uptime |-> Num(0),
   currentLatency |-> Num(0), currentPacketLoss |-> Num(0),
   currentJitter |-> Num(0), currentIsOnline |-> FALSE]

ProbeAtRest == probe = NoProbe /\ stored = NoRow

Callers == 1..MaxCallers

\* an executePing call that has not been made
IdleCaller == [pc |-> "idle", out |-> "none", via |-> "none"]

FpingAtRest ==
  /\ fpingAvailable = "null"
  /\ callers = [c \in Callers |-> IdleCaller]
  /\ detections = 0

StatsAtRest == window = <<>> /\ stats = NoStats /\ timeRange = "1h"

\* getStatus has not been called
NoStatus ==
  [called |-> FALSE, at |-> 0, isRunning |-> FALSE, targetCount |-> 0,
   nextProbeIn |-> [id \in Targets |-> -1]]

InitCallers == 1..MaxInitCallers

\* an initializeServer call that has not been made; `threw` remembers
\* that an earlier call of the same client threw
IdleInit == [pc |-> "idle", threw |-> FALSE]

CtlAtRest ==
  /\ schedulerStatus = NoStatus
  /\ tickTimers = 0
  /\ reloadTimers = 0
  /\ starting = 0
  /\ lifeCalls = 0
  /\ initialized = FALSE
  /\ dbHandle = FALSE
  /\ dbInitPromise = "null"
  /\ dbInits = 0
  /\ inits = [c \in InitCallers |-> IdleInit]

----------------------------------------------------------------------------
(* ScheduledTarget objects *)

NoRef == [id |-> "-", g |-> 0]

\* an address no reference leads to; the garbage collector has reclaimed it
Dead == [lastProbeTime |-> 0, isProbing |-> FALSE]

\* this.scheduledTargets.get(id), when the entry exists
Cur(id) == [id |-> id, g |-> scheduledTargets[id]]

Obj(h, ref) == h[ref.id][ref.g]

\* target.isProbing = true; target.lastProbeTime = Date.now()
Mark(h, ref, t) ==
  [h EXCEPT ![ref.id][ref.g] = [lastProbeTime |-> t, isProbing |-> TRUE]]

\* finally { target.isProbing = false }
Clear(h, ref) == [h EXCEPT ![ref.id][ref.g].isProbing = FALSE]

\* targets.forEach(target => { target.isProbing = true;
\*                             target.lastProbeTime = Date.now() })
MarkAll(h, refs, t) ==
  [id \in Targets |->
     [g \in Gens |->
        IF [id |-> id, g |-> g] \in Range(refs)
          THEN [lastProbeTime |-> t, isProbing |-> TRUE]
          ELSE h[id][g]]]

\* targets.forEach(target => { target.isProbing = false })
ClearAll(h, refs) ==
  [id \in Targets |->
     [g \in Gens |->
        IF [id |-> id, g |-> g] \in Range(refs)
          THEN [h[id][g] EXCEPT !.isProbing = FALSE]
          ELSE h[id][g]]]

\* the references to ScheduledTarget objects: the Map's, the `target` of
\* each running probeTarget call, the `targets` of each running batch
Referenced(ref, map, tks, frc) ==
  \/ map[ref.id] = ref.g
  \/ \E k \in TickSlots : tks[k].cur = ref \/ ref \in Range(tks[k].held)
  \/ frc.cur = ref

\* garbage collection: an object nothing refers to is gone
Collect(h, map, tks, frc) ==
  [id \in Targets |->
     [g \in Gens |->
        IF Referenced([id |-> id, g |-> g], map, tks, frc)
          THEN h[id][g]
          ELSE Dead]]

\* the address of a newly created object
NewGen(id) ==
  Min({g \in Gens :
         ~Referenced([id |-> id, g |-> g], scheduledTargets, ticks, force)})

Scheduled == {id \in Targets : scheduledTargets[id] # 0}

Entry(id) == heap[id][scheduledTargets[id]]

----------------------------------------------------------------------------
(* Task records *)

\* checkAndProbeTargets: the objects of the batch it awaits (held), the
\* sequential targets still to probe (seq), the object of the probeTarget
\* call it awaits (cur)
IdleTick == [pc |-> "idle", held |-> <<>>, seq |-> <<>>, cur |-> NoRef]

\* loadTargets: activeTargets and the index of the loop
IdleLoad == [pc |-> "idle", activeTargets |-> <<>>, i |-> 0, installs |-> FALSE]

IdleForce == [pc |-> "idle", cur |-> NoRef]

\* the record of a step: a tick's collection (ids = targetsToProbe,
\* dispatched), the end of a tick's probes (ids, thrown, failed, stored;
\* "forced" for the probe of forceProbe), the end of
\* a reload (ids = activeTargets, kept = entries copied with isProbing,
\* removed), a forceProbe call (ids, kept = it found isProbing set,
\* dispatched = it started a probe)
NoEvent ==
  [kind |-> "none", ids |-> {}, dispatched |-> {}, thrown |-> {},
   failed |-> {}, stored |-> {}, kept |-> {}, removed |-> {}]

\* The state after `new ProbeScheduler()`.  The targets table holds the
\* targets a and d; b is there or is still to be created by a POST.
Init ==
  /\ now = Epoch
  /\ tickDue = FALSE
  /\ isRunning = FALSE
  /\ intervalId = FALSE
  /\ registry \in {[id \in Targets |-> IF id = "b" THEN st ELSE "active"] :
                     st \in {"none", "active"}}
  /\ dbLastProbeAt = [id \in Targets |-> 0]
  /\ measurements = {}
  /\ heap = [id \in Targets |-> [g \in Gens |-> Dead]]
  /\ scheduledTargets = [id \in Targets |-> 0]
  /\ ticks = [k \in TickSlots |-> IdleTick]
  /\ loads = [r \in LoadSlots \cup ReloadSlots |-> IdleLoad]
  /\ force = IdleForce
  /\ calls = 0
  /\ last = NoEvent
  /\ ProbeAtRest
  /\ FpingAtRest
  /\ StatsAtRest
  /\ CtlAtRest

----------------------------------------------------------------------------
(* loadTargets, start, reloadTargets *)

RowExists(id) == registry[id] \in {"active", "paused"}

\* const activeTargets = targets.filter(t => t.status === 'active')
ActiveTargets(reg) == SelectSeq(Ord, LAMBDA id : reg[id] = "active")

\* resolve((row as any)?.last_probe_at || 0)
LastProbeAt(id) == IF RowExists(id) THEN dbLastProbeAt[id] ELSE 0

\* a loadTargets that creates every object idle
LoadedTargetIdle(id, lastProbeAt) ==
  [lastProbeTime |-> lastProbeAt, isProbing |-> FALSE]

\* the object loadTargets stores for a target:
\* lastProbeTime: lastProbeAt, isProbing: existing?.isProbing || false
LoadedTarget(id, lastProbeAt) ==
  [lastProbeTime |-> lastProbeAt,
   isProbing |-> scheduledTargets[id] # 0 /\ Entry(id).isProbing]

\* for (const [id] of this.scheduledTargets)
\*   if (!activeIds.has(id)) this.scheduledTargets.delete(id)
RemoveInactive(map, activeIds) ==
  [id \in Targets |-> IF id \in activeIds THEN map[id] ELSE 0]

FreeLoad(r) ==
  /\ loads[r].pc = "idle"
  /\ \A q \in LoadSlots : q < r => loads[q].pc # "idle"

\* loadTargets() up to the registry read: await getAllTargets()
BeginLoad(r, reg, installs) ==
  loads' = [loads EXCEPT ![r] =
              [pc |-> "loop", activeTargets |-> ActiveTargets(reg), i |-> 1,
               installs |-> installs]]

\* loadTargets() returns; when start() awaited it, start() goes on and
\* installs the tick timer
EndLoad(r) ==
  /\ loads' = [loads EXCEPT ![r] = IdleLoad]
  /\ intervalId' = (intervalId \/ loads[r].installs)

\* start(): if (this.isRunning) return; this.isRunning = true;
\* await this.loadTargets(); ...
Start ==
  /\ ~isRunning
  /\ isRunning' = TRUE
  /\ \E r \in LoadSlots : FreeLoad(r) /\ BeginLoad(r, registry, TRUE)
  /\ last' = NoEvent
  /\ UNCHANGED <<now, tickDue, intervalId, registry, dbLastProbeAt,
                 measurements, heap, scheduledTargets, ticks, force, calls>>
  /\ UNCHANGED <<probeVars, fpingVars, statsVars, ctlVars>>

\* reloadTargets(), called by the periodic reload timer or from outside
ReloadTargets ==
  /\ intervalId
  /\ calls < MaxCalls
  /\ calls' = calls + 1
  /\ \E r \in LoadSlots : FreeLoad(r) /\ BeginLoad(r, registry, FALSE)
  /\ last' = NoEvent
  /\ UNCHANGED <<now, tickDue, isRunning, intervalId, registry, dbLastProbeAt,
                 measurements, heap, scheduledTargets, ticks, force>>
  /\ UNCHANGED <<probeVars, fpingVars, statsVars, ctlVars>>

\* loadTargets() resumes after an await.  One iteration of `for (const
\* target of activeTargets)`: the row's last_probe_at is read and the Map
\* entry of the target is replaced by a new object.  After the last
\* iteration (at once, when no target is active) the entries of all other
\* targets are deleted and loadTargets returns
LoadStep(r) ==
  LET t    == loads[r]
      n    == Len(t.activeTargets)
      ids  == Range(t.activeTargets)
      id   == t.activeTargets[t.i]
      g    == NewGen(id)
      map1 == IF n = 0 THEN scheduledTargets
              ELSE [scheduledTargets EXCEPT ![id] = g]
      h1   == IF n = 0 THEN heap
              ELSE [heap EXCEPT ![id][g] = LoadedTarget(id, LastProbeAt(id))]
  IN /\ t.pc = "loop"
     /\ IF t.i >= n
          THEN /\ scheduledTargets' = RemoveInactive(map1, ids)
               /\ EndLoad(r)
               /\ last' = [NoEvent EXCEPT !.kind = "loaded", !.ids = ids,
                             !.removed = Scheduled \ ids]
          ELSE /\ scheduledTargets' = map1
               /\ loads' = [loads EXCEPT ![r].i = @ + 1]
               /\ last' = NoEvent
               /\ UNCHANGED intervalId
     /\ heap' = Collect(h1, scheduledTargets', ticks, force)
     /\ UNCHANGED <<now, tickDue, isRunning, registry, dbLastProbeAt,
                    measurements, ticks, force, calls>>
     /\ UNCHANGED <<probeVars, fpingVars, statsVars, ctlVars>>

\* a database read of loadTargets rejects: catch (error) { console.error }
LoadFail(r) ==
  LET t == loads[r]
  IN /\ t.pc = "loop"
     /\ EndLoad(r)
     /\ last' = [NoEvent EXCEPT !.kind = "loadFailed"]
     /\ UNCHANGED <<now, tickDue, isRunning, registry, dbLastProbeAt,
                    measurements, heap, scheduledTargets, ticks, force, calls>>
     /\ UNCHANGED <<probeVars, fpingVars, statsVars, ctlVars>>

----------------------------------------------------------------------------
(* checkAndProbeTargets, probeTargetsParallel, probeTarget *)

\* if (target.isProbing) continue;
\* if (now - target.lastProbeTime >= target.interval * 1000) push
IsDue(id) ==
  /\ scheduledTargets[id] # 0
  /\ ~Entry(id).isProbing
  /\ now - Entry(id).lastProbeTime >= interval(id) * 1000

\* targetsToProbe, in the order the Map iterates
TargetsToProbe == SelectSeq(Ord, IsDue)

\* const pingTargets = targetsToProbe.filter(t => t.probeType === 'ping')
PingTargets(toProbe) == SelectSeq(toProbe, LAMBDA id : probeType(id) = "ping")

\* the targets handed to probeTargetsParallel: pingTargets when
\* targetsToProbe.length > 1 and pingTargets.length > 1, else none
Batch(toProbe) ==
  IF Len(toProbe) > 1 /\ Len(PingTargets(toProbe)) > 1
    THEN PingTargets(toProbe)
    ELSE <<>>

\* targetsToProbe.filter(t => t.probeType === 'dns' ||
\*   (t.probeType === 'ping' && !pingTargets.includes(t)))
\* in the branch targetsToProbe.length > 1, and targetsToProbe otherwise
SequentialTargets(toProbe) ==
  IF Len(toProbe) > 1
    THEN SelectSeq(toProbe,
           LAMBDA id : \/ probeType(id) = "dns"
                       \/ /\ probeType(id) = "ping"
                          /\ id \notin Range(PingTargets(toProbe)))
    ELSE toProbe

\* probeTarget: const target = this.scheduledTargets.get(targetId);
\* if (!target) return;  -- the sequential targets from the first one
\* that has an entry on
RECURSIVE SkipMissing(_)
SkipMissing(s) ==
  IF s = <<>> \/ scheduledTargets[Head(s)] # 0 THEN s ELSE SkipMissing(Tail(s))

\* the `for (const target of sequentialTargets) await this.probeTarget(..)`
\* loop goes on with the targets s: the next probeTarget call takes the
\* object of its target and awaits the executor, or the loop and the tick
\* end
Proceed(s) ==
  LET rest == SkipMissing(s)
  IN IF rest = <<>>
       THEN IdleTick
       ELSE [pc |-> "probe", held |-> <<>>, seq |-> Tail(rest),
             cur |-> Cur(Head(rest))]

\* target.isProbing = true; target.lastProbeTime = Date.now() of that call
HeapAfterProceed(h, s) ==
  LET rest == SkipMissing(s)
  IN IF rest = <<>> THEN h ELSE Mark(h, Cur(Head(rest)), now)

FreeTick(k) ==
  /\ ticks[k].pc = "idle"
  /\ \A q \in TickSlots : q < k => ticks[q].pc # "idle"

\* how a probe ends.  "ok": the measurement is stored and last_probe_at
\* updated; "throw": the executor (or getDatabase) throws; "storeFail":
\* storeMeasurement rejects.  A rejected UPDATE of last_probe_at differs
\* from "ok" only in the targets row and is left out.
Outcomes == {"ok", "throw", "storeFail"}

\* INSERT INTO measurements
StoreMeasurement(m, id) == m \cup {[targetId |-> id]}

\* UPDATE targets SET last_probe_at = ? WHERE id = ?
UpdateLastProbeAt(db, id, t) ==
  IF RowExists(id) THEN [db EXCEPT ![id] = t] ELSE db

\* the record of the end of one probeTarget call, of a tick ("probed") or
\* of forceProbe ("forced")
ProbeEvent(kind, id, outcome) ==
  [NoEvent EXCEPT !.kind = kind, !.ids = {id},
                  !.thrown = IF outcome = "throw" THEN {id} ELSE {},
                  !.failed = IF outcome = "storeFail" THEN {id} ELSE {},
                  !.stored = IF outcome = "ok" THEN {id} ELSE {}]

\* the setInterval callback: checkAndProbeTargets() up to its first await
Tick(k) ==
  LET toProbe == TargetsToProbe
      batch   == Batch(toProbe)
      refs    == [i \in DOMAIN batch |-> Cur(batch[i])]
      seq     == SequentialTargets(toProbe)
  IN /\ intervalId
     /\ tickDue
     /\ FreeTick(k)
     /\ tickDue' = FALSE
     /\ IF Len(batch) > 0
          THEN /\ heap' = MarkAll(heap, refs, now)
               /\ ticks' = [ticks EXCEPT ![k] =
                    [pc |-> "batch", held |-> refs, seq |-> seq, cur |-> NoRef]]
          ELSE /\ heap' = HeapAfterProceed(heap, seq)
               /\ ticks' = [ticks EXCEPT ![k] = Proceed(seq)]
     /\ last' = [NoEvent EXCEPT !.kind = "tick", !.ids = Range(toProbe),
                   !.dispatched = Range(batch) \cup Range(seq)]
     /\ UNCHANGED <<now, isRunning, intervalId, registry, dbLastProbeAt,
                    measurements, scheduledTargets, loads, force, calls>>
     /\ UNCHANGED <<probeVars, fpingVars, statsVars, ctlVars>>

\* probeTargetsParallel after `await pingMultipleTargets(targetData)`:
\* Promise.all rejects when the executor of a target in `thrown` throws;
\* otherwise the results are stored one after the other until
\* storeMeasurement rejects (at result failAt, 0 = never); finally the
\* flags of the batch's objects are cleared and the tick goes on with the
\* sequential targets
BatchDone(k, thrown, failAt) ==
  LET t    == ticks[k]
      refs == t.held
      n    == Len(refs)
      good == IF thrown # {} THEN 0
              ELSE IF failAt = 0 THEN n ELSE failAt - 1
      ok   == {refs[i].id : i \in 1..good}
      h1   == ClearAll(heap, refs)
  IN /\ t.pc = "batch"
     /\ thrown \subseteq {refs[i].id : i \in 1..n}
     /\ failAt \in 0..n
     /\ thrown # {} => failAt = 0
     /\ measurements' = measurements \cup {[targetId |-> id] : id \in ok}
     /\ dbLastProbeAt' =
          [id \in Targets |->
             IF id \in ok /\ RowExists(id)
               THEN Obj(heap, CHOOSE r \in Range(refs) : r.id = id).lastProbeTime
               ELSE dbLastProbeAt[id]]
     /\ ticks' = [ticks EXCEPT ![k] = Proceed(t.seq)]
     /\ heap' = Collect(HeapAfterProceed(h1, t.seq), scheduledTargets, ticks',
                        force)
     /\ last' = [NoEvent EXCEPT !.kind = "probed",
                   !.ids = {refs[i].id : i \in 1..n}, !.thrown = thrown,
                   !.failed = IF thrown = {} /\ failAt # 0
                                THEN {refs[failAt].id} ELSE {},
                   !.stored = ok]
     /\ UNCHANGED <<now, tickDue, isRunning, intervalId, registry,
                    scheduledTargets, loads, force, calls>>
     /\ UNCHANGED <<probeVars, fpingVars, statsVars, ctlVars>>

\* probeTarget after `await executePing / executeDnsProbe`: the measurement
\* is stored and last_probe_at updated unless something throws; finally
\* target.isProbing = false on the object the call holds; then the tick's
\* loop goes on
ProbeDone(k, outcome) ==
  LET t  == ticks[k]
      id == t.cur.id
      h1 == Clear(heap, t.cur)
  IN /\ t.pc = "probe"
     /\ measurements' = IF outcome = "ok"
                          THEN StoreMeasurement(measurements, id)
                          ELSE measurements
     /\ dbLastProbeAt' = IF outcome = "ok"
                           THEN UpdateLastProbeAt(dbLastProbeAt, id,
                                                  Obj(heap, t.cur).lastProbeTime)
                           ELSE dbLastProbeAt
     /\ ticks' = [ticks EXCEPT ![k] = Proceed(t.seq)]
     /\ heap' = Collect(HeapAfterProceed(h1, t.seq), scheduledTargets, ticks',
                        force)
     /\ last' = ProbeEvent("probed", id, outcome)
     /\ UNCHANGED <<now, tickDue, isRunning, intervalId, registry,
                    scheduledTargets, loads, force, calls>>
     /\ UNCHANGED <<probeVars, fpingVars, statsVars, ctlVars>>

----------------------------------------------------------------------------
(* forceProbe *)

\* forceProbe(targetId): if (!target) { warn; return }
\* await this.probeTarget(targetId)
ForceProbe(id) ==
  /\ force.pc = "idle"
  /\ calls < MaxCalls
  /\ calls' = calls + 1
  /\ IF scheduledTargets[id] = 0
       THEN /\ last' = [NoEvent EXCEPT !.kind = "force", !.ids = {id}]
            /\ UNCHANGED <<force, heap>>
       ELSE /\ force' = [pc |-> "probe", cur |-> Cur(id)]
            /\ heap' = Mark(heap, Cur(id), now)
            /\ last' = [NoEvent EXCEPT !.kind = "force", !.ids = {id},
                          !.kept = IF Entry(id).isProbing THEN {id} ELSE {},
                          !.dispatched = {id}]
  /\ UNCHANGED <<now, tickDue, isRunning, intervalId, registry, dbLastProbeAt,
                 measurements, scheduledTargets, ticks, loads>>
  /\ UNCHANGED <<probeVars, fpingVars, statsVars, ctlVars>>

\* the probeTarget call of forceProbe ends
ForceDone(outcome) ==
  LET id == force.cur.id
  IN /\ force.pc = "probe"
     /\ measurements' = IF outcome = "ok"
                          THEN StoreMeasurement(measurements, id)
                          ELSE measurements
     /\ dbLastProbeAt' = IF outcome = "ok"
                           THEN UpdateLastProbeAt(dbLastProbeAt, id,
                                                  Obj(heap, force.cur).lastProbeTime)
                           ELSE dbLastProbeAt
     /\ force' = IdleForce
     /\ heap' = Collect(Clear(heap, force.cur), scheduledTargets, ticks, force')
     /\ last' = ProbeEvent("forced", id, outcome)
     /\ UNCHANGED <<now, tickDue, isRunning, intervalId, registry,
                    scheduledTargets, ticks, loads, calls>>
     /\ UNCHANGED <<probeVars, fpingVars, statsVars, ctlVars>>

----------------------------------------------------------------------------
(* The target registry: POST /api/targets, PATCH and DELETE /api/targets/id *)

\* POST: createTarget({... status: 'active'}); await scheduler.reloadTargets()
PostTarget(id) ==
  /\ intervalId
  /\ calls < MaxCalls
  /\ registry[id] = "none"
  /\ registry' = [registry EXCEPT ![id] = "active"]
  /\ calls' = calls + 1
  /\ \E r \in LoadSlots : FreeLoad(r) /\ BeginLoad(r, registry', FALSE)
  /\ last' = NoEvent
  /\ UNCHANGED <<now, tickDue, isRunning, intervalId, dbLastProbeAt,
                 measurements, heap, scheduledTargets, ticks, force>>
  /\ UNCHANGED <<probeVars, fpingVars, statsVars, ctlVars>>

\* PATCH: updateTarget(id, {status}); the scheduler is not told
PatchTarget(id, status) ==
  /\ calls < MaxCalls
  /\ RowExists(id)
  /\ registry[id] # status
  /\ registry' = [registry EXCEPT ![id] = status]
  /\ calls' = calls + 1
  /\ last' = NoEvent
  /\ UNCHANGED <<now, tickDue, isRunning, intervalId, dbLastProbeAt,
                 measurements, heap, scheduledTargets, ticks, loads, force>>
  /\ UNCHANGED <<probeVars, fpingVars, statsVars, ctlVars>>

\* DELETE: deleteTarget(id); the scheduler is not told
DeleteTarget(id) ==
  /\ calls < MaxCalls
  /\ RowExists(id)
  /\ registry' = [registry EXCEPT ![id] = "deleted"]
  /\ calls' = calls + 1
  /\ last' = NoEvent
  /\ UNCHANGED <<now, tickDue, isRunning, intervalId, dbLastProbeAt,
                 measurements, heap, scheduledTargets, ticks, loads, force>>
  /\ UNCHANGED <<probeVars, fpingVars, statsVars, ctlVars>>

----------------------------------------------------------------------------
(* Time: setInterval(..., this.checkIntervalMs) fires once per period *)

Advance ==
  /\ now < Epoch + MaxTicks * checkIntervalMs
  /\ ~tickDue
  /\ now' = now + checkIntervalMs
  /\ tickDue' = intervalId
  /\ last' = NoEvent
  /\ UNCHANGED <<isRunning, intervalId, registry, dbLastProbeAt, measurements,
                 heap, scheduledTargets, ticks, loads, force, calls>>
  /\ UNCHANGED <<probeVars, fpingVars, statsVars, ctlVars>>

Next ==
  \/ Start
  \/ ReloadTargets
  \/ \E r \in LoadSlots : LoadStep(r)
  \/ \E r \in LoadSlots : LoadFail(r)
  \/ \E k \in TickSlots : Tick(k)
  \/ \E k \in TickSlots, thrown \in SUBSET Targets,
        failAt \in 0..Cardinality(Targets) : BatchDone(k, thrown, failAt)
  \/ \E k \in TickSlots, outcome \in Outcomes : ProbeDone(k, outcome)
  \/ \E id \in Targets : ForceProbe(id)
  \/ \E outcome \in Outcomes : ForceDone(outcome)
  \/ \E id \in Targets : PostTarget(id)
  \/ \E id \in Targets, status \in {"active", "paused"} : PatchTarget(id, status)
  \/ \E id \in Targets : DeleteTarget(id)
  \/ Advance

Spec == Init /\ [][Next]_vars

----------------------------------------------------------------------------
(* Overlapping reloads: the periodic reload timer of start() and the       *)
(* reload of POST /api/targets, while time passes; no tick is looked at    *)

\* the callback of setInterval(() => { this.loadTargets() }, 5 * 60 * 1000)
PeriodicReload ==
  /\ intervalId
  /\ calls < MaxCalls
  /\ calls' = calls + 1
  /\ \E r \in ReloadSlots : FreeLoad(r) /\ BeginLoad(r, registry, FALSE)
  /\ last' = NoEvent
  /\ UNCHANGED <<now, tickDue, isRunning, intervalId, registry, dbLastProbeAt,
                 measurements, heap, scheduledTargets, ticks, force>>
  /\ UNCHANGED <<probeVars, fpingVars, statsVars, ctlVars>>

\* POST: createTarget({... status: 'active'}); await scheduler.reloadTargets()
\* while another loadTargets may be running
PostTargetReload(id) ==
  /\ intervalId
  /\ calls < MaxCalls
  /\ registry[id] = "none"
  /\ registry' = [registry EXCEPT ![id] = "active"]
  /\ calls' = calls + 1
  /\ \E r \in ReloadSlots : FreeLoad(r) /\ BeginLoad(r, registry', FALSE)
  /\ last' = NoEvent
  /\ UNCHANGED <<now, tickDue, isRunning, intervalId, dbLastProbeAt,
                 measurements, heap, scheduledTargets, ticks, force>>
  /\ UNCHANGED <<probeVars, fpingVars, statsVars, ctlVars>>

ReloadNext ==
  \/ Start
  \/ PeriodicReload
  \/ \E id \in Targets : PostTargetReload(id)
  \/ \E r \in ReloadSlots : LoadStep(r)
  \/ Advance

SpecReload == Init /\ [][ReloadNext]_vars

----------------------------------------------------------------------------
(* getStatus, called while the scheduler runs *)

\* a status whose nextProbeIn is the bare difference
NextProbeInRaw(id) == interval(id) * 1000 - (now - Entry(id).lastProbeTime)

\* Math.max(0, (t.interval * 1000) - (now - t.lastProbeTime))
NextProbeIn(id) ==
  LET x == interval(id) * 1000 - (now - Entry(id).lastProbeTime)
  IN IF x > 0 THEN x ELSE 0

\* getStatus(): the targets of the Map with their nextProbeIn (-1 stands
\* for a target without entry), isRunning and scheduledTargets.size
GetStatus ==
  /\ schedulerStatus' =
       [called |-> TRUE, at |-> now, isRunning |-> isRunning,
        targetCount |-> Cardinality(Scheduled),
        nextProbeIn |-> [id \in Targets |->
                           IF id \in Scheduled THEN NextProbeIn(id) ELSE -1]]
  /\ UNCHANGED <<schedVars, probeVars, fpingVars, statsVars, lifeVars,
                 initVars>>

\* the scheduler started, its ticks and probes, and getStatus calls
StatusNext ==
  \/ Start
  \/ \E r \in LoadSlots : LoadStep(r)
  \/ \E k \in TickSlots : Tick(k)
  \/ \E k \in TickSlots, thrown \in SUBSET Targets,
        failAt \in 0..Cardinality(Targets) : BatchDone(k, thrown, failAt)
  \/ \E k \in TickSlots, outcome \in Outcomes : ProbeDone(k, outcome)
  \/ Advance
  \/ GetStatus

SpecStatus == Init /\ [][StatusNext]_vars

----------------------------------------------------------------------------
(* start() and stop() of the scheduler with their timers, and               *)
(* initializeServer, which the first API requests call.  What loadTargets   *)
(* does to the Map is left to the specification of the scheduler above;     *)
(* here start() only awaits it.                                             *)

\* the state of the scheduler that start() and stop() do not touch
schedRest == <<now, tickDue, registry, dbLastProbeAt, measurements, heap,
               scheduledTargets, ticks, loads, force, calls, last>>

\* a start() that never takes the scheduler for running
NeverRunning == FALSE

\* start(): if (this.isRunning) { console.log('Already running'); return }
AlreadyRunning == isRunning

\* start() after `await this.loadTargets()`: this.intervalId = setInterval(
\* checkAndProbeTargets, checkIntervalMs); setInterval(loadTargets, 5 min),
\* whose id is not kept
InstallTimers ==
  /\ intervalId' = TRUE
  /\ tickTimers' = tickTimers + 1
  /\ reloadTimers' = reloadTimers + 1

\* start() called from outside (POST /api/scheduler/start), up to its await
StartCall ==
  /\ lifeCalls < MaxLifeCalls
  /\ lifeCalls' = lifeCalls + 1
  /\ IF AlreadyRunning
       THEN UNCHANGED <<isRunning, starting>>
       ELSE /\ isRunning' = TRUE
            /\ starting' = starting + 1
  /\ UNCHANGED <<intervalId, tickTimers, reloadTimers, schedRest, probeVars,
                 fpingVars, statsVars, statusVars, initVars>>

\* loadTargets() of a start() call returns and start() installs its timers
StartLoaded ==
  /\ starting > 0
  /\ starting' = starting - 1
  /\ InstallTimers
  /\ UNCHANGED <<isRunning, lifeCalls, schedRest, probeVars, fpingVars,
                 statsVars, statusVars, initVars>>

\* stop(): if (this.intervalId) { clearInterval(this.intervalId);
\* this.intervalId = null }  this.isRunning = false
Stop ==
  /\ lifeCalls < MaxLifeCalls
  /\ lifeCalls' = lifeCalls + 1
  /\ IF intervalId
       THEN /\ tickTimers' = tickTimers - 1
            /\ intervalId' = FALSE
       ELSE UNCHANGED <<tickTimers, intervalId>>
  /\ isRunning' = FALSE
  /\ UNCHANGED <<reloadTimers, starting, schedRest, probeVars, fpingVars,
                 statsVars, statusVars, initVars>>

LifeNext ==
  \/ StartCall
  \/ StartLoaded
  \/ Stop

SpecLife == Init /\ [][LifeNext]_vars

\* initializeServer() of client c (a first, or a later, API request), up to
\* its first await.  if (initialized) return.  initDatabase(): if (db)
\* return db; if (dbInitPromise) return dbInitPromise; otherwise the body
\* runs up to its first await: it opens the database (db is set), or
\* creating the data directory or opening throws (early)
InitializeServer(c, early) ==
  /\ inits[c].pc \in {"idle", "done", "failed"}
  /\ IF initialized
       THEN /\ inits' = [inits EXCEPT ![c].pc = "done"]
            /\ UNCHANGED <<dbHandle, dbInitPromise, dbInits>>
       ELSE IF dbHandle
         THEN /\ inits' = [inits EXCEPT ![c].pc = "ready"]
              /\ UNCHANGED <<dbHandle, dbInitPromise, dbInits>>
         ELSE IF dbInitPromise # "null"
           THEN /\ inits' = [inits EXCEPT ![c].pc = "db"]
                /\ UNCHANGED <<dbHandle, dbInitPromise, dbInits>>
           ELSE /\ inits' = [inits EXCEPT ![c].pc = "db"]
                /\ dbInits' = dbInits + 1
                /\ dbHandle' = ~early
                /\ dbInitPromise' = IF early THEN "rejected" ELSE "pending"
  /\ UNCHANGED <<initialized, schedVars, probeVars, fpingVars, statsVars,
                 statusVars, lifeVars>>

\* the CREATE TABLE / CREATE INDEX statements of initDatabase end
DbDone(ok) ==
  /\ dbInitPromise = "pending"
  /\ dbInitPromise' = IF ok THEN "resolved" ELSE "rejected"
  /\ UNCHANGED <<initialized, dbHandle, dbInits, inits, schedVars, probeVars,
                 fpingVars, statsVars, statusVars, lifeVars>>

\* initializeServer after `await initDatabase()`: the catch rethrows, or
\* startScheduler() calls start(), which returns at once when the
\* scheduler runs (then initialized = true) or awaits loadTargets()
InitResume(c) ==
  /\ \/ inits[c].pc = "ready"
     \/ inits[c].pc = "db" /\ dbInitPromise \in {"resolved", "rejected"}
  /\ IF inits[c].pc = "db" /\ dbInitPromise = "rejected"
       THEN /\ inits' = [inits EXCEPT ![c] = [pc |-> "failed", threw |-> TRUE]]
            /\ UNCHANGED <<initialized, isRunning>>
       ELSE IF AlreadyRunning
         THEN /\ inits' = [inits EXCEPT ![c].pc = "done"]
              /\ initialized' = TRUE
              /\ UNCHANGED isRunning
         ELSE /\ inits' = [inits EXCEPT ![c].pc = "start"]
              /\ isRunning' = TRUE
              /\ UNCHANGED initialized
  /\ UNCHANGED <<dbHandle, dbInitPromise, dbInits, intervalId, schedRest,
                 probeVars, fpingVars, statsVars, statusVars, lifeVars>>

\* start() of client c's initializeServer call installs its timers and
\* returns; initialized = true
InitStarted(c) ==
  /\ inits[c].pc = "start"
  /\ InstallTimers
  /\ inits' = [inits EXCEPT ![c].pc = "done"]
  /\ initialized' = TRUE
  /\ UNCHANGED <<dbHandle, dbInitPromise, dbInits, isRunning, starting,
                 lifeCalls, schedRest, probeVars, fpingVars, statsVars,
                 statusVars>>

InitNext ==
  \/ \E c \in InitCallers, early \in BOOLEAN : InitializeServer(c, early)
  \/ \E ok \in BOOLEAN : DbDone(ok)
  \/ \E c \in InitCallers : InitResume(c)
  \/ \E c \in InitCallers : InitStarted(c)

SpecInit == Init /\ [][InitNext]_vars

----------------------------------------------------------------------------
(* The probe executors: the echo probe by single packets in its two        *)
(* variants (exhaustive, and stopping early at the first reply), the echo  *)
(* probe by fping, the DNS probe of five queries; and the measurement the  *)
(* scheduler makes of a result.                                            *)

\* dns: const queryCount = 5
queryCount == 5

\* const packetsForAttempt = Math.max(1, Math.floor(count / (retries + 1)))
PacketsForAttempt(count, retries) ==
  IF count \div (retries + 1) >= 1 THEN count \div (retries + 1) ELSE 1

\* an allocation whose final attempt is capped like the others
PacketsToSendCapped(count, retries, attempt, totalSent) ==
  IF PacketsForAttempt(count, retries) <= count - totalSent
    THEN PacketsForAttempt(count, retries)
    ELSE count - totalSent

\* const remainingPackets = count - totalSent;
\* const packetsToSend = attempt === retries ? remainingPackets
\*                       : Math.min(packetsForAttempt, remainingPackets)
PacketsToSend(count, retries, attempt, totalSent) ==
  LET remainingPackets == count - totalSent
  IN IF attempt = retries THEN remainingPackets
     ELSE IF PacketsForAttempt(count, retries) <= remainingPackets
            THEN PacketsForAttempt(count, retries)
            ELSE remainingPackets

\* let jitter = null; if (latencies.length > 1) { ... jitter = Math.round(
\*   absoluteDeviations.reduce(...) / absoluteDeviations.length) }
Jitter(latencies) ==
  IF BagSize(latencies) > 1
    THEN Num(Round(BagDev(latencies), BagSize(latencies) * BagSize(latencies)))
    ELSE Null

\* what executeEnhancedSystemPing returns after its loop; only the
\* exhaustive variant collects latencies and returns a jitter
PingResult(t) ==
  [success |-> t.totalReceived > 0,
   latency |-> IF t.totalReceived > 0
                 THEN Num(Round(t.totalLatency, t.totalReceived))
                 ELSE Null,
   packetLoss |-> IF t.totalSent > 0
                    THEN Num(Round((t.totalSent - t.totalReceived) * 100,
                                   t.totalSent))
                    ELSE Num(100),
   jitter |-> IF t.kind = "exhaustive" THEN Jitter(t.latencies) ELSE Null]

\* what executeDnsProbe returns after its five queries: the mean is not
\* rounded, there is no packetLoss field
DnsResult(t) ==
  [success |-> t.totalReceived > 0,
   latency |-> IF t.totalReceived > 0
                 THEN Frac(BagSum(t.latencies), t.totalReceived)
                 ELSE Null,
   packetLoss |-> Null,
   jitter |-> IF t.totalReceived > 1
                THEN Num(Round(BagDev(t.latencies),
                               BagSize(t.latencies) * BagSize(t.latencies)))
                ELSE Null]

\* what `fping -c count ...` can give: the command fails or times out
\* ("error"), stdout has no line with the host ("noLine"), the line has no
\* sent/received/lost ("noStats"), or the line has them ("stats"), with or
\* without the min/avg/max part
FpingStats(sent, received, lost, avg) ==
  [kind |-> "stats", sent |-> sent, received |-> received, lost |-> lost,
   avg |-> avg]

FpingOutputs ==
  {[kind |-> k, sent |-> 0, received |-> 0, lost |-> 0, avg |-> Null] :
     k \in {"error", "noLine", "noStats"}}
  \cup {FpingStats(20, 20, 0, Frac(157, 10)), FpingStats(20, 19, 1, Frac(157, 10)),
        FpingStats(20, 0, 20, Null), FpingStats(20, 20, 0, Null),
        FpingStats(0, 0, 0, Null)}

\* what executeFping returns
FpingResult(o) ==
  IF o.kind # "stats"
    THEN [success |-> FALSE, latency |-> Null, packetLoss |-> Num(100),
          jitter |-> Null]
    ELSE [success |-> o.received > 0,
          latency |-> o.avg,
          packetLoss |-> IF o.sent > 0 THEN Num(Round(o.lost * 100, o.sent))
                         ELSE Num(100),
          jitter |-> Null]

\* scheduler: const measurement = { latency: result.latency,
\*   packetLoss: result.packetLoss || 0, jitter: result.jitter || null,
\*   success: result.success, ... }
Measurement(result) ==
  [row |-> TRUE, success |-> result.success, latency |-> result.latency,
   packetLoss |-> OrZero(result.packetLoss), jitter |-> OrNull(result.jitter)]

\* executePing(targetId, host, {count, retries}) of either variant of the
\* per-packet probe, up to the first await of its loop
CallPing(kind, count, retries) ==
  /\ probe.pc = "idle"
  /\ probe' = [NoProbe EXCEPT !.pc = "loop", !.kind = kind, !.count = count,
                              !.retries = retries]
  /\ UNCHANGED <<stored, schedVars, fpingVars, statsVars, ctlVars>>

\* a loop without the early stop
StopsNever(kind, receivedInAttempt) == FALSE

\* early-stop variant: if (receivedInAttempt > 0) { break; }
StopsEarly(kind, receivedInAttempt) ==
  kind = "earlyStop" /\ receivedInAttempt > 0

\* the replies of one attempt: a packets answered after the shorter
\* round-trip time, b after the longer one
Replies(a, b) ==
  [v \in Range(RttSeq) |->
     IF v = Min(PingRtts) THEN a ELSE IF v \in PingRtts THEN b ELSE 0]

\* one iteration of `for (let attempt = 0; attempt <= retries; attempt++)`:
\* executeIndividualPings sends packetsToSend packets, of which a + b are
\* answered (it catches every failure of a packet itself, so the catch of
\* the attempt is never entered).  The early-stop variant breaks when the
\* attempt got a reply; the loop also ends after attempt `retries` and
\* when nothing remains to send.  After the loop the result is computed.
PingAttempt(a, b) ==
  LET t  == probe
      p  == PacketsToSend(t.count, t.retries, t.attempt, t.totalSent)
      n  == a + b
      t1 == [t EXCEPT !.attempt = @ + 1,
                      !.totalSent = @ + p,
                      !.totalReceived = @ + n,
                      !.totalLatency = @ + BagSum(Replies(a, b)),
                      !.latencies = BagAdd(@, Replies(a, b)),
                      !.alloc = Append(@, p)]
      more == /\ ~StopsEarly(t.kind, n)
              /\ t1.attempt <= t.retries
              /\ PacketsToSend(t.count, t.retries, t1.attempt, t1.totalSent) > 0
  IN /\ t.pc = "loop"
     /\ n <= p
     /\ probe' = IF more THEN t1
                 ELSE [t1 EXCEPT !.pc = "done", !.result = PingResult(t1)]
     /\ UNCHANGED <<stored, schedVars, fpingVars, statsVars, ctlVars>>

\* executeFping: the fping command is run and its output parsed
CallFping(o) ==
  /\ probe.pc = "idle"
  /\ probe' = [NoProbe EXCEPT !.pc = "done", !.kind = "fping", !.out = o.kind,
                              !.totalSent = o.sent,
                              !.totalReceived = o.received,
                              !.result = FpingResult(o)]
  /\ UNCHANGED <<stored, schedVars, fpingVars, statsVars, ctlVars>>

\* executeDnsProbe up to the first await of its loop
CallDns ==
  /\ probe.pc = "idle"
  /\ probe' = [NoProbe EXCEPT !.pc = "query", !.kind = "dns"]
  /\ UNCHANGED <<stored, schedVars, fpingVars, statsVars, ctlVars>>

\* a loop that records the elapsed time of a failed query as well
DnsSamplesAll(latencies, rtt) ==
  IF rtt = 0 THEN [latencies EXCEPT ![RttSeq[1]] = @ + 1]
  ELSE [latencies EXCEPT ![rtt] = @ + 1]

\* latencies.push(latency) after the race was won by the lookup; the catch
\* of a failed or timed-out query (rtt = 0) records nothing
DnsSamples(latencies, rtt) ==
  IF rtt = 0 THEN latencies ELSE [latencies EXCEPT ![rtt] = @ + 1]

\* one iteration of `for (let i = 0; i < queryCount; i++)`: the query is
\* answered after rtt ms, or fails or times out (rtt = 0); after the last
\* query the result is computed
DnsQuery(rtt) ==
  LET t  == probe
      t1 == [t EXCEPT !.attempt = @ + 1,
                      !.totalSent = @ + 1,
                      !.totalReceived = IF rtt = 0 THEN @ ELSE @ + 1,
                      !.latencies = DnsSamples(@, rtt)]
  IN /\ t.pc = "query"
     /\ probe' = IF t1.attempt < queryCount THEN t1
                 ELSE [t1 EXCEPT !.pc = "done", !.result = DnsResult(t1)]
     /\ UNCHANGED <<stored, schedVars, fpingVars, statsVars, ctlVars>>

\* probeTarget / probeTargetsParallel build the measurement of the result
StoreResult ==
  /\ probe.pc = "done"
  /\ ~stored.row
  /\ stored' = Measurement(probe.result)
  /\ UNCHANGED <<probe, schedVars, fpingVars, statsVars, ctlVars>>

ProbeNext ==
  \/ \E kind \in {"exhaustive", "earlyStop"}, count \in 1..MaxCount,
        retries \in 0..MaxRetries : CallPing(kind, count, retries)
  \/ \E a \in 0..MaxCount, b \in 0..MaxCount : PingAttempt(a, b)
  \/ \E o \in FpingOutputs : CallFping(o)
  \/ CallDns
  \/ \E rtt \in DnsRtts \cup {0} : DnsQuery(rtt)
  \/ StoreResult

SpecProbe == Init /\ [][ProbeNext]_vars

----------------------------------------------------------------------------
(* executePing of the ping library with fping: the cached detection of     *)
(* fping and the choice between executeFping and the per-packet loop.      *)
(* The executePing calls of one batch run concurrently (Promise.all).      *)

\* executePing after isFpingAvailable() has returned `available`:
\* executeFping is called when it is true, else executeEnhancedSystemPing
Branch(available) == IF available = "true" THEN "fping" ELSE "loop"

\* executePing(...) up to its first await.  isFpingAvailable returns the
\* cached flag when it is not null; otherwise it runs `fping --version`
CallExecutePing(c) ==
  /\ callers[c].pc = "idle"
  /\ IF fpingAvailable # "null"
       THEN /\ callers' = [callers EXCEPT ![c].pc = Branch(fpingAvailable)]
            /\ UNCHANGED detections
       ELSE /\ callers' = [callers EXCEPT ![c].pc = "detect"]
            /\ detections' = detections + 1
  /\ UNCHANGED <<fpingAvailable, schedVars, probeVars, statsVars, ctlVars>>

\* `await execAsync('fping --version', { timeout: 2000 })` ends: the flag
\* is set to true, or to false in the catch, and returned
DetectDone(c, found) ==
  /\ callers[c].pc = "detect"
  /\ fpingAvailable' = found
  /\ callers' = [callers EXCEPT ![c].pc = Branch(found)]
  /\ UNCHANGED <<detections, schedVars, probeVars, statsVars, ctlVars>>

\* executeFping returns: whatever fping gave, its result is the result of
\* executePing
FpingDone(c, out) ==
  /\ callers[c].pc = "fping"
  /\ callers' = [callers EXCEPT ![c] = [pc |-> "done", out |-> out,
                                         via |-> "fping"]]
  /\ UNCHANGED <<fpingAvailable, detections, schedVars, probeVars, statsVars, ctlVars>>

\* executeEnhancedSystemPing returns
LoopDone(c) ==
  /\ callers[c].pc = "loop"
  /\ callers' = [callers EXCEPT ![c] = [pc |-> "done", out |-> "none",
                                         via |-> "loop"]]
  /\ UNCHANGED <<fpingAvailable, detections, schedVars, probeVars, statsVars, ctlVars>>

\* the caller takes the result; a later probe calls executePing again
Return(c) ==
  /\ callers[c].pc = "done"
  /\ callers' = [callers EXCEPT ![c] = IdleCaller]
  /\ UNCHANGED <<fpingAvailable, detections, schedVars, probeVars, statsVars, ctlVars>>

FpingNext ==
  \/ \E c \in Callers : CallExecutePing(c)
  \/ \E c \in Callers, found \in {"true", "false"} : DetectDone(c, found)
  \/ \E c \in Callers, o \in FpingOutputs : FpingDone(c, o.kind)
  \/ \E c \in Callers : LoopDone(c)
  \/ \E c \in Callers : Return(c)

SpecFping == Init /\ [][FpingNext]_vars

----------------------------------------------------------------------------
(* The dashboard: loadMeasurements builds the window of data points of    *)
(* the chart from the stored measurements, calculateStats aggregates it.  *)

\* the time ranges of the chart that are modelled
TimeRanges == {"1h", "24h"}

\* chartIntervals[timeRange]: minutes between two data points
chartIntervals(r) == IF r = "1h" THEN 5 ELSE 30

\* the probe executor's state after a DNS probe with `received` answers
DnsProbeOf(received) ==
  [NoProbe EXCEPT !.kind = "dns", !.totalSent = queryCount,
                  !.totalReceived = received,
                  !.latencies = [NoSamples EXCEPT ![12] = received]]

\* the probe executor's state after an echo probe of 20 packets
PingProbeOf(received) ==
  [NoProbe EXCEPT !.kind = "exhaustive", !.count = 20, !.totalSent = 20,
                  !.totalReceived = received, !.totalLatency = 10 * received,
                  !.latencies = [NoSamples EXCEPT ![10] = received]]

\* rows of the measurements table, as the scheduler stores them: a DNS
\* probe without and with answers, an echo probe with no and with half of
\* its replies
StoredMeasurements ==
  {[src |-> "dns", m |-> Measurement(DnsResult(DnsProbeOf(r)))] :
     r \in {0, queryCount}}
  \cup {[src |-> "ping", m |-> Measurement(PingResult(PingProbeOf(r)))] :
          r \in {0, 10}}

\* dataPoints.push({timestamp, latency: actualData.latency, packetLoss:
\* actualData.packetLoss, jitter: actualData.jitter, isOnline:
\* actualData.success}); `src` remembers the kind of probe
DataPoint(s) ==
  [src |-> s.src, latency |-> s.m.latency, packetLoss |-> s.m.packetLoss,
   jitter |-> s.m.jitter,
   isOnline |-> IF s.m.success THEN "true" ELSE "false"]

\* dataPoints.push({timestamp, latency: null, packetLoss: null, jitter:
\* null, isOnline: null}) for a chart interval without a measurement
GapPoint ==
  [src |-> "gap", latency |-> Null, packetLoss |-> Null, jitter |-> Null,
   isOnline |-> "null"]

DataPoints == {DataPoint(s) : s \in StoredMeasurements} \cup {GapPoint}

\* the windows loadMeasurements can build: maxPoints points, sorted most
\* recent first
Windows == [1..MaxWindow -> DataPoints]

\* minutes between the timestamp of the i-th point of the sorted window and
\* the `now` of loadMeasurements: the last point lies one interval before now
AgeMinutes(i) == i * chartIntervals(timeRange)

\* 10^4 * Math.exp(-ageMinutes * 0.23) for the ages of the range '1h', to
\* the nearest integer
WeightTable == <<3166, 1003, 317, 101, 32, 10, 3, 1>>

\* 10^10 * Math.exp(-ageMinutes * 0.23) for the ages of the range '24h';
\* only the ratios of the weights of one window matter
WeightTableDay == <<10077854, 10156, 10>>

\* Math.exp(...) is never 0
Weight(i) ==
  LET table == IF timeRange = "1h" THEN WeightTable ELSE WeightTableDay
  IN  IF i <= Len(table) THEN table[i] ELSE 1

\* d.packetLoss ?? (d.isOnline === false ? 100 : 0); a stored packet loss
\* is a whole number
LossOf(d) ==
  IF d.packetLoss.isNull
    THEN (IF d.isOnline = "false" THEN 100 ELSE 0)
    ELSE d.packetLoss.num

\* ageMinutes <= 5, where Date.now() of calculateStats is the `now` of
\* loadMeasurements or later
VeryRecent(i, late) == AgeMinutes(i) * 60000 + (IF late THEN 1 ELSE 0) <= 5 * 60000

\* a bias that takes the smaller of the two
MinFrac(a, b) == IF a.num * b.den <= b.num * a.den THEN a ELSE b

\* Math.max(a, b) of two fractions
MaxFrac(a, b) == IF a.num * b.den >= b.num * a.den THEN a ELSE b

\* the time-weighted packet loss of calculateStats with its recency bias
WeightedPacketLoss(data, late) ==
  LET n == Len(data)
      weightedSum == SumSeq([i \in 1..n |-> LossOf(data[i]) * Weight(i)])
      totalWeight == SumSeq([i \in 1..n |-> Weight(i)])
      base == IF totalWeight > 0 THEN Frac(weightedSum, totalWeight) ELSE Num(0)
      recentCount == SumSeq([i \in 1..n |-> IF VeryRecent(i, late) THEN 1 ELSE 0])
      recentSum == SumSeq([i \in 1..n |->
                             IF VeryRecent(i, late) THEN LossOf(data[i]) ELSE 0])
      \* recentAvgLoss * Math.min(0.9, recentAvgLoss / 100)
      biased == IF 10 * recentSum >= 9 * 100 * recentCount
                  THEN Frac(9 * recentSum, 10 * recentCount)
                  ELSE Frac(recentSum * recentSum, 100 * recentCount * recentCount)
  IN  IF recentCount > 0 /\ recentSum > 20 * recentCount
        THEN MaxFrac(base, biased)
        ELSE base

\* validOnlineData.filter(d => d.isOnline).length
OnlineCount(data) ==
  SumSeq([i \in 1..Len(data) |-> IF data[i].isOnline = "true" THEN 1 ELSE 0])

\* data.filter(d => d.isOnline !== null).length
ValidOnlineCount(data) ==
  SumSeq([i \in 1..Len(data) |-> IF data[i].isOnline # "null" THEN 1 ELSE 0])

\* data.length > 0 ? (onlineCount / data.length) * 100 : 0
Uptime(data) ==
  IF Len(data) > 0 THEN Frac(OnlineCount(data) * 100, Len(data)) ELSE Num(0)

\* a filter that keeps every data point of the window
InAnyHour(i, late) == TRUE

\* d.timestamp >= oneHourAgo, oneHourAgo = Date.now() - 60 * 60 * 1000
InLastHour(i, late) ==
  AgeMinutes(i) * 60000 + (IF late THEN 1 ELSE 0) <= 60 * 60 * 1000

\* recentMeasurements.some(d => d.isOnline === true)
CurrentIsOnline(data, late) ==
  \E i \in 1..Len(data) : InLastHour(i, late) /\ data[i].isOnline = "true"

\* x ?? 0
OrDefault(x) == IF x.isNull THEN Num(0) ELSE x

\* latestData = sortedData[0]: the window is sorted most recent first
\* latestData?.isOnline === false ? 100 : (latestData?.packetLoss ?? 0)
CurrentPacketLoss(latestData) ==
  IF latestData.isOnline = "false" THEN Num(100)
  ELSE OrDefault(latestData.packetLoss)

CalculateStats(data, late) ==
  [done |-> TRUE, late |-> late,
   packetLoss |-> WeightedPacketLoss(data, late),
   uptime |-> Uptime(data),
   currentLatency |-> OrDefault(data[1].latency),
   currentPacketLoss |-> CurrentPacketLoss(data[1]),
   currentJitter |-> OrDefault(data[1].jitter),
   currentIsOnline |-> CurrentIsOnline(data, late)]

\* loadMeasurements: setMeasurements(dataPoints)
LoadMeasurements(r, w) ==
  /\ timeRange' = r
  /\ window' = w
  /\ stats' = NoStats
  /\ UNCHANGED <<schedVars, probeVars, fpingVars, ctlVars>>

\* useMemo: measurements.length === 0 ? null : calculateStats(measurements)
Calculate(late) ==
  /\ window # <<>>
  /\ ~stats.done
  /\ stats' = CalculateStats(window, late)
  /\ UNCHANGED <<window, timeRange, schedVars, probeVars, fpingVars, ctlVars>>

StatsNext ==
  \/ \E r \in TimeRanges, w \in Windows : LoadMeasurements(r, w)
  \/ \E late \in BOOLEAN : Calculate(late)

SpecStats == Init /\ [][StatsNext]_vars

----------------------------------------------------------------------------
(* Properties *)

\* the number of probes of target id that have started and not finished:
\* running probeTarget calls of ticks and of forceProbe, running batches
InFlight(id) ==
  Cardinality({k \in TickSlots :
                 \/ ticks[k].cur.id = id
                 \/ \E i \in DOMAIN ticks[k].held : ticks[k].held[i].id = id})
  + (IF force.cur.id = id THEN 1 ELSE 0)

\* C1: for every target at most one probe is in flight at any time,
\* whatever the interleaving of ticks, forceProbe calls and reloads.
C1_AtMostOneProbeInFlight == \A id \in Targets : InFlight(id) <= 1

\* C2: once the probes of a target have finished, the target's entry in
\* the scheduled set has isProbing = false, also when a reload ran while a
\* probe was in flight.
C2_FinishedProbeLeavesEntryIdle ==
  \A id \in Scheduled : InFlight(id) = 0 => ~Entry(id).isProbing

C4_ReloadKeepsLastProbeTime ==
  [][\A r \in LoadSlots :
       (loads[r].pc = "loop" /\ loads'[r] # loads[r])
       => \A id \in Scheduled \cap Scheduled' :
            Entry(id)'.lastProbeTime = Entry(id).lastProbeTime]_vars

\* C5: forceProbe on a target whose isProbing is true starts no probe.
C5_ForceProbeRespectsIsProbing ==
  (last.kind = "force" /\ last.kept # {}) => last.dispatched = {}

\* C6: every target a tick finds due and idle is dispatched by that tick,
\* in the batch or in the sequential loop.
C6_TickDispatchesEveryDueTarget ==
  last.kind = "tick" => last.ids \subseteq last.dispatched

\* C7: a tick starts a probe of a target only if, at that moment, the
\* target's entry has isProbing = false and now - lastProbeTime >=
\* interval * 1000.
C7_TickProbesOnlyDueIdle ==
  [][\A k \in TickSlots :
       ticks'[k] # ticks[k]
       => /\ ticks'[k].pc = "probe"
               => LET id == ticks'[k].cur.id
                  IN /\ ~Entry(id).isProbing
                     /\ now - Entry(id).lastProbeTime >= interval(id) * 1000
          /\ ticks'[k].pc = "batch"
               => \A i \in DOMAIN ticks'[k].held :
                    LET id == ticks'[k].held[i].id
                    IN /\ ~Entry(id).isProbing
                       /\ now - Entry(id).lastProbeTime >= interval(id) * 1000
    ]_vars

\* C8: when the executor throws for one target, the other targets probed
\* with it still have their measurements stored.
C8_ThrowSparesOtherTargets ==
  \A id \in Targets :
    (last.kind = "probed" /\ last.thrown = {id})
    => (last.ids \ {id}) \subseteq last.stored

\* C9: a target whose probe threw is due again at the very next tick.
C9_ThrownTargetDueNextTick ==
  \A id \in Scheduled :
    (last.kind = "probed" /\ id \in last.thrown /\ InFlight(id) = 0
       /\ ~Entry(id).isProbing)
    => now + checkIntervalMs - Entry(id).lastProbeTime >= interval(id) * 1000

\* C10: when storing the measurement of one target fails, the measurements
\* of the other targets probed with it are still stored.
C10_StoreFailureSparesOtherTargets ==
  \A id \in Targets :
    (last.kind = "probed" /\ last.failed = {id})
    => (last.ids \ {id}) \subseteq last.stored

\* C11: the exhaustive echo probe, for every count >= 1 and retries >= 0,
\* sends min(max(1, floor(count / (retries + 1))), remaining) packets in
\* each attempt but the last possible one, which sends what remains; it
\* makes at most retries + 1 attempts, never has sent more than count, and
\* has sent exactly count when it returns.
C11_ExhaustiveSendsExactlyCount ==
  probe.kind = "exhaustive" =>
    LET per == IF probe.count \div (probe.retries + 1) > 1
                 THEN probe.count \div (probe.retries + 1) ELSE 1
    IN /\ Len(probe.alloc) <= probe.retries + 1
       /\ probe.totalSent = SumSeq(probe.alloc)
       /\ probe.totalSent <= probe.count
       /\ \A i \in DOMAIN probe.alloc :
            LET remaining == probe.count - SumSeq(SubSeq(probe.alloc, 1, i - 1))
            IN probe.alloc[i] = IF i = probe.retries + 1 THEN remaining
                                ELSE IF per < remaining THEN per ELSE remaining
       /\ probe.pc = "done" => probe.totalSent = probe.count

\* C11 witness: count = 7, retries = 3: three attempts of 1 packet and a
\* final attempt of the 4 that remain.
C11_Witness ==
  /\ probe.kind = "exhaustive"
  /\ probe.pc = "done"
  /\ probe.count = 7
  /\ probe.retries = 3
  /\ probe.alloc = <<1, 1, 1, 4>>

\* C12: with count = 20 and retries = 3 every attempt sends 5 packets; the
\* exhaustive variant makes 4 attempts and sends 20; the early-stop
\* variant makes no attempt after one that got a reply, so when attempt 1
\* gets 5 of 5 replies it has sent 5 and reports packet loss 0.
C12_AllocationAndEarlyStop ==
  (probe.kind \in {"exhaustive", "earlyStop"} /\ probe.count = 20
     /\ probe.retries = 3)
  => /\ \A i \in DOMAIN probe.alloc : probe.alloc[i] = 5
     /\ (probe.kind = "exhaustive" /\ probe.pc = "done")
          => probe.alloc = <<5, 5, 5, 5>> /\ probe.totalSent = 20
     /\ (probe.kind = "earlyStop" /\ probe.totalReceived > 0)
          => /\ probe.pc = "done"
             /\ probe.totalReceived <= 5
             /\ probe.totalSent = 5 * Len(probe.alloc)
     /\ (probe.kind = "earlyStop" /\ Len(probe.alloc) = 1
           /\ probe.totalReceived = 5)
          => /\ probe.totalSent = 5
             /\ probe.result.packetLoss = Num(0)

\* C12 witness: the early-stop variant has returned after a first attempt
\* with 5 of 5 replies.
C12_Witness ==
  /\ probe.kind = "earlyStop"
  /\ probe.count = 20
  /\ probe.retries = 3
  /\ probe.pc = "done"
  /\ probe.alloc = <<5>>
  /\ probe.totalReceived = 5
  /\ probe.result.packetLoss = Num(0)

\* C13: every measurement the scheduler makes of a probe result has
\* 0 <= packetLoss <= 100, and packetLoss = 100 exactly when success is
\* false.
C13_PacketLossMatchesSuccess ==
  stored.row =>
    /\ ~stored.packetLoss.isNull
    /\ 0 <= stored.packetLoss.num
    /\ stored.packetLoss.num <= 100 * stored.packetLoss.den
    /\ SameNumber(stored.packetLoss, Num(100)) <=> ~stored.success

\* C14: a probe result has latency = null only when no packet or query
\* succeeded; when success is true the latency is not null and, where the
\* executor has the samples, it is their mean.
C14_LatencyIsMeanOfSuccesses ==
  probe.pc = "done" =>
    /\ probe.result.latency.isNull => probe.totalReceived = 0
    /\ probe.result.success => ~probe.result.latency.isNull
    /\ (probe.result.success /\ probe.kind # "fping")
         => SameNumber(probe.result.latency,
                       Frac(BagSum(probe.latencies), BagSize(probe.latencies)))

\* C15: the jitter the scheduler stores for a DNS probe is null when fewer
\* than 2 queries succeeded, and otherwise is the mean absolute deviation
\* of the successful latencies from their mean (also when that is 0).
C15_StoredJitterIsMeanAbsDeviation ==
  (stored.row /\ probe.kind = "dns") =>
    LET n == BagSize(probe.latencies)
    IN IF n < 2 THEN stored.jitter.isNull
       ELSE /\ ~stored.jitter.isNull
            /\ SameNumber(stored.jitter, Frac(BagDev(probe.latencies), n * n))

\* C16: the availability of fping is detected at most once per process,
\* also when several executePing calls of a batch run concurrently.
C16_FpingDetectedAtMostOnce == detections <= 1

\* C17: when fping is available but its invocation fails, times out or
\* gives output that cannot be parsed, the result of the echo probe comes
\* from the per-packet loop: a result that comes from executeFping is one
\* fping gave statistics for.
C17_FpingFailureFallsBackToLoop ==
  \A c \in Callers :
    (callers[c].pc = "done" /\ callers[c].via = "fping")
    => callers[c].out = "stats"

\* C18: a DNS probe in which every query failed is stored and counted by
\* the packet-loss aggregation as 100% packet loss, one with a successful
\* query as 0%: a window of failed DNS probes aggregates to 100, a window
\* of successful ones to 0.
C18_FailedDnsCountsAsTotalLoss ==
  stats.done =>
    /\ (\A i \in 1..Len(window) :
          window[i].src = "dns" /\ window[i].isOnline = "false")
       => SameNumber(stats.packetLoss, Num(100))
    /\ (\A i \in 1..Len(window) :
          window[i].src = "dns" /\ window[i].isOnline = "true")
       => SameNumber(stats.packetLoss, Num(0))

\* C19: uptime is onlineCount divided by the number of data points whose
\* isOnline is not null, times 100; gap data points count in neither.
C19_UptimeIgnoresGaps ==
  (stats.done /\ ValidOnlineCount(window) > 0)
  => SameNumber(stats.uptime,
                Frac(OnlineCount(window) * 100, ValidOnlineCount(window)))

\* C20: when every data point of the window with a known packet loss has
\* the same value c, the aggregated packet loss is c, whatever the ages and
\* however many gap data points lie between them.
C20_UniformLossAggregatesToItself ==
  stats.done =>
    \A c \in 0..100 :
      (/\ \E i \in 1..Len(window) : ~window[i].packetLoss.isNull
       /\ \A i \in 1..Len(window) :
            ~window[i].packetLoss.isNull => window[i].packetLoss = Num(c))
      => SameNumber(stats.packetLoss, Num(c))

\* C21: the recency bias never lowers the aggregate.  The reported packet
\* loss is the time-decayed mean when no data point lies in the last 5
\* minutes or their unweighted mean loss is at most 20; otherwise it is the
\* larger of the decayed mean and recentMean * min(0.9, recentMean / 100),
\* and so never below the decayed mean.
C21_RecencyBiasNeverLowers ==
  stats.done =>
    LET n == Len(window)
        lateMs == IF stats.late THEN 1 ELSE 0
        recent == {i \in 1..n : AgeMinutes(i) * 60000 + lateMs <= 5 * 60000}
        decayedNum == SumSeq([i \in 1..n |-> LossOf(window[i]) * Weight(i)])
        decayedDen == SumSeq([i \in 1..n |-> Weight(i)])
        rc == Cardinality(recent)
        rs == SumSeq([i \in 1..n |->
                        IF i \in recent THEN LossOf(window[i]) ELSE 0])
        p == stats.packetLoss
        \* recentMean * min(0.9, recentMean / 100) as a fraction
        bNum == IF rs >= 90 * rc THEN 9 * rs ELSE rs * rs
        bDen == IF rs >= 90 * rc THEN 10 * rc ELSE 100 * rc * rc
    IN  IF rc = 0 \/ rs <= 20 * rc
          THEN p = Frac(decayedNum, decayedDen)
          ELSE /\ p.num * decayedDen >= decayedNum * p.den
               /\ p.num * bDen >= bNum * p.den
               /\ \/ p.num * decayedDen = decayedNum * p.den
                  \/ p.num * bDen = bNum * p.den

\* the latest sample has 100% loss, older ones none: the decayed mean is
\* about 70.6 and the bias raises the reported value to 100 * 0.9 = 90
C21_Witness ==
  /\ stats.done
  /\ timeRange = "1h"
  /\ ~stats.late
  /\ window[1].packetLoss = Num(100)
  /\ \A i \in 2..Len(window) : LossOf(window[i]) = 0
  /\ SameNumber(stats.packetLoss, Num(90))

\* C22: currentIsOnline is true exactly when a data point whose timestamp
\* lies in the trailing 60 minutes has isOnline = true; a failed or missing
\* latest sample does not make it false, older data points never make it
\* true.
C22_CurrentIsOnlineWithinLastHour ==
  stats.done =>
    (stats.currentIsOnline
     <=> \E i \in 1..Len(window) :
           /\ window[i].isOnline = "true"
           /\ AgeMinutes(i) * 60000 + (IF stats.late THEN 1 ELSE 0)
                <= 60 * 60000)

\* the latest sample failed, the one of 60 minutes ago succeeded and was
\* still inside the hour, a successful one of 90 minutes ago exists too
C22_Witness ==
  /\ stats.done
  /\ timeRange = "24h"
  /\ ~stats.late
  /\ window[1].isOnline = "false"
  /\ window[2].isOnline = "true"
  /\ window[3].isOnline = "true"
  /\ stats.currentIsOnline

\* C23: currentLatency, currentPacketLoss and currentJitter are the
\* latency, packetLoss and jitter of the most recent data point of the
\* window, unmodified.
C23_CurrentValuesVerbatim ==
  stats.done =>
    /\ stats.currentLatency = window[1].latency
    /\ stats.currentPacketLoss = window[1].packetLoss
    /\ stats.currentJitter = window[1].jitter

\* C24: a target change through the API is followed by reloadTargets
\* before the request returns: when no loadTargets is running, every
\* scheduled target is active in the registry, and a tick dispatches no
\* probe for a target that is paused or deleted.
C24_ApiChangeReloadsScheduler ==
  (\A r \in LoadSlots : loads[r].pc = "idle")
  => /\ \A id \in Scheduled : registry[id] = "active"
     /\ last.kind = "tick"
          => \A id \in last.dispatched : registry[id] = "active"

\* C25: getStatus reports for every scheduled target nextProbeIn =
\* max(0, interval * 1000 - (now - lastProbeTime)): never negative, and 0
\* exactly when the interval test of the tick holds; targetCount is the
\* size of the scheduled set; the call changes no scheduler state.
C25_GetStatusNextProbeIn ==
  [][schedulerStatus' # schedulerStatus
     => /\ schedVars' = schedVars
        /\ schedulerStatus'.targetCount = Cardinality(Scheduled)
        /\ \A id \in Scheduled :
             LET n == schedulerStatus'.nextProbeIn[id]
                 age == now - Entry(id).lastProbeTime
             IN /\ n >= 0
                /\ n >= interval(id) * 1000 - age
                /\ n = 0 \/ n = interval(id) * 1000 - age
                /\ n = 0 <=> age >= interval(id) * 1000]_vars

\* getStatus was called when one target had just been probed and another
\* was due
C25_Witness ==
  /\ schedulerStatus.called
  /\ schedulerStatus.targetCount >= 2
  /\ \E id \in Targets : schedulerStatus.nextProbeIn[id] > 0
  /\ \E id \in Targets : schedulerStatus.nextProbeIn[id] = 0

\* C26: a DNS probe makes exactly queryCount resolution attempts, one
\* after the other, whatever their outcomes; a failed or timed-out attempt
\* adds no latency sample; success = (some attempt succeeded).
C26_DnsProbeMakesAllQueries ==
  probe.kind = "dns" =>
    /\ probe.attempt <= queryCount
    /\ probe.totalSent = probe.attempt
    /\ BagSize(probe.latencies) = probe.totalReceived
    /\ probe.totalReceived <= probe.attempt
    /\ probe.pc = "done" <=> probe.attempt = queryCount
    /\ probe.pc = "done" => (probe.result.success <=> probe.totalReceived > 0)

\* a finished DNS probe whose first queries failed and a later one succeeded
C26_Witness ==
  /\ probe.kind = "dns"
  /\ probe.pc = "done"
  /\ probe.attempt = queryCount
  /\ probe.totalReceived = 1
  /\ probe.result.success

\* C27: start() on a running scheduler is a no-op; after any sequence of
\* start() and stop() calls at most one tick timer and at most one periodic
\* reload timer exist; after stop() no timer of the scheduler remains.
C27_AtMostOneTimerNoneAfterStop ==
  /\ tickTimers <= 1
  /\ reloadTimers <= 1
  /\ (~isRunning /\ starting = 0) => (tickTimers = 0 /\ reloadTimers = 0)

\* C29: once start() has returned, isRunning is true exactly when a tick
\* timer is installed, also when stop() ran while start() awaited the
\* initial load.
C29_IsRunningIffTickTimer ==
  starting = 0 => (isRunning <=> tickTimers > 0)

C28_OverlappingReloadsAgree ==
  (intervalId /\ \A r \in ReloadSlots : loads[r].pc = "idle")
  => Scheduled = {id \in Targets : registry[id] = "active"}

====
